---------------------------- MODULE Spec2Model ----------------------------
(***************************************************************************)
(* A model of torchaudio_contrib (functional.py, layers.py).                *)
(*                                                                         *)
(* Every operation of the package is a function of its arguments (and, for *)
(* the nn.Module classes, of the fields set by __init__).  A behaviour of   *)
(* the model is one top-level call: Init draws the operation and its       *)
(* arguments, the actions run the code.  pc = "call" before the call,      *)
(* "constructed" after a class's __init__, "done" after the last step.     *)
(* SpecForwardCalls is the second specification: a StretchSpecTime and an  *)
(* ApplyFilterbank are constructed and their forward is called repeatedly, *)
(* in any order.                                                           *)
(*                                                                         *)
(* Numbers.  Tensor entries are exact integers or rationals:               *)
(*   - phases are counted in quarter turns (1 unit = pi/2), complex        *)
(*     entries lie on the real or the imaginary axis, so that atan2, cos,  *)
(*     sin and the norm are exact;                                         *)
(*   - frequencies are counted in 1/U Hz and mels in 1/(200*U) mel, with   *)
(*     U == Scale(num_freqs, num_mels), and the mel formulas are taken at  *)
(*     the points where they are rational (the linear Slaney segment, and  *)
(*     the points 1000*6.4^k Hz, 700*(10^k - 1) Hz of the log segments).   *)
(* Floating-point rounding is outside the model.                           *)
(***************************************************************************)
EXTENDS Integers, Sequences, FiniteSets, TLC

VARIABLES op, pc, args, self, ret

vars == <<op, pc, args, self, ret>>

\* ------------------------------------------------------------ bounds
MaxFrames == 3
MaxRateNum == 4
MaxRateDen == 2
MaxTime == 6
MaxMels == 2
MaxFreqs == 4
MaxBins == 2

\* ------------------------------------------------------------ Python values
\* Python's None where an integer argument is expected (layers.py defaults).
None == -1

NoneValue == [kind |-> "None"]
Raise(exc) == [kind |-> "raise", exc |-> exc]
NoSelf == [class |-> "none"]

\* ------------------------------------------------------------ helpers
RECURSIVE Prod(_)
Prod(s) == IF s = <<>> THEN 1 ELSE Head(s) * Prod(Tail(s))

Abs(x) == IF x < 0 THEN -x ELSE x

Last(s) == s[Len(s)]
Front(s) == SubSeq(s, 1, Len(s) - 1)

\* ------------------------------------------------------------ functional.stft
\* torch.nn.functional.pad(waveforms, (pad, pad), "reflect") on the last axis:
\* reflection needs pad < T.
F_pad_shape(shape, pad) ==
  IF pad >= Last(shape) THEN Raise("RuntimeError")
  ELSE [kind |-> "shape", shape |-> Front(shape) \o <<Last(shape) + 2 * pad>>]

\* torch.stft(input (N, T), n_fft, hop_length, window, win_length, center=False):
\* the argument checks, then the result's shape (N, n_fft/2+1, n_frames, 2).
torch_stft_shape(shape, fft_len, hop_len, window) ==
  IF Len(window.shape) = 0 THEN Raise("IndexError")      \* window.size(0)
  ELSE IF \/ Len(window.shape) # 1
          \/ window.shape[1] <= 0
          \/ window.shape[1] > fft_len
          \/ fft_len <= 0 \/ fft_len > shape[2]
          \/ hop_len <= 0
       THEN Raise("RuntimeError")
  ELSE [kind |-> "shape",
        shape |-> <<shape[1], fft_len \div 2 + 1,
                    (shape[2] - fft_len) \div hop_len + 1, 2>>]

\* The local complex_specgrams at the end of stft (line 101), or the error.
stft_mutant_keep_batch(waveforms, fft_len, hop_len, window, pad) ==
  LET w1 == IF Len(waveforms) = 2 THEN <<1>> \o waveforms ELSE waveforms
      w2 == IF pad > 0 THEN F_pad_shape(w1, pad) ELSE [kind |-> "shape", shape |-> w1]
  IN IF w2.kind = "raise" THEN w2
     ELSE LET leading_dims == Front(w2.shape)
              flat == <<Prod(leading_dims), Last(w2.shape)>>
              s == torch_stft_shape(flat, fft_len, hop_len, window)
          IN IF s.kind = "raise" THEN s
             ELSE [kind |-> "shape", shape |-> leading_dims \o Tail(s.shape)]

stft_complex_specgrams(waveforms, fft_len, hop_len, window, pad) ==
  LET add_batch_dim == (Len(waveforms) = 2)
      w1 == IF add_batch_dim THEN <<1>> \o waveforms ELSE waveforms
      w2 == IF pad > 0 THEN F_pad_shape(w1, pad) ELSE [kind |-> "shape", shape |-> w1]
  IN IF w2.kind = "raise" THEN w2
     ELSE LET leading_dims == Front(w2.shape)
              flat == <<Prod(leading_dims), Last(w2.shape)>>
              s == torch_stft_shape(flat, fft_len, hop_len, window)
          IN IF s.kind = "raise" THEN s
             ELSE LET r == leading_dims \o Tail(s.shape)
                  IN [kind |-> "shape",
                      shape |-> IF add_batch_dim THEN Tail(r) ELSE r]

\* The value of the call stft(...): the function body ends without a return
\* statement, so a call that does not raise evaluates to None.
stft(waveforms, fft_len, hop_len, window, pad) ==
  LET c == stft_complex_specgrams(waveforms, fft_len, hop_len, window, pad)
  IN IF c.kind = "raise" THEN c
     ELSE [kind |-> "None", complex_specgrams |-> c.shape]

\* A window argument: a torch.Tensor of some shape, another Python object
\* (kind "object": a list, a numpy array), or None.
Tensor(shape) == [kind |-> "Tensor", shape |-> shape, hann |-> FALSE]
Tensor1D(n) == Tensor(<<n>>)
NotATensor == [kind |-> "object", shape |-> <<>>, hann |-> FALSE]
NoWindow == [kind |-> "None", shape |-> <<>>, hann |-> FALSE]
\* torch.hann_window(length)
hann_window(length) == [kind |-> "Tensor", shape |-> <<length>>, hann |-> TRUE]

\* The arguments of the end-to-end example: (1, 16000), fft_len 1024, hop 256.
EndToEndArgs ==
  [waveforms |-> <<1, 16000>>, fft_len |-> 1024, hop_len |-> 256,
   window |-> Tensor1D(1024), pad |-> 0]

WaveShapes ==
  {<<c, t>> : c \in 1..2, t \in 2..MaxTime}
    \cup {<<b, c, t>> : b \in 1..2, c \in 1..2, t \in 2..MaxTime}

StftArgs ==
  {a \in [waveforms : WaveShapes, fft_len : {2, 4}, hop_len : 1..2,
          window : {Tensor1D(n) : n \in 1..4}, pad : 0..2] :
      a.window.shape[1] <= a.fft_len}
    \cup {EndToEndArgs}

Call_stft ==
  /\ pc = "call" /\ op = "stft"
  /\ ret' = stft(args.waveforms, args.fft_len, args.hop_len, args.window, args.pad)
  /\ pc' = "done"
  /\ UNCHANGED <<op, args, self>>

\* ------------------------------------------------------------ layers.STFT
\* STFT._stft_defaults: (fft_len, hop_len, window), or the TypeError.
stft_defaults_mutant_hop(fft_len, hop_len, frame_len, window) ==
  LET hop == IF hop_len = None THEN fft_len \div 2 ELSE hop_len
      win == IF window.kind = "None"
             THEN hann_window(IF frame_len = None THEN fft_len ELSE frame_len)
             ELSE window
  IN IF win.kind # "Tensor" THEN Raise("TypeError")
     ELSE [kind |-> "ok", fft_len |-> fft_len, hop_len |-> hop, window |-> win]

stft_defaults(fft_len, hop_len, frame_len, window) ==
  LET hop == IF hop_len = None THEN fft_len \div 4 ELSE hop_len
      win == IF window.kind = "None"
             THEN hann_window(IF frame_len = None THEN fft_len ELSE frame_len)
             ELSE window
  IN IF win.kind # "Tensor" THEN Raise("TypeError")
     ELSE [kind |-> "ok", fft_len |-> fft_len, hop_len |-> hop, window |-> win]

WindowArgs ==
  {NoWindow, NotATensor, Tensor(<<>>), Tensor(<<2, 2>>)}
    \cup {Tensor1D(n) : n \in {0, 2, 4, 8}}

STFTArgs ==
  [fft_len : {4}, hop_len : {None, 1, 2}, frame_len : {None, 2, 8},
   window : WindowArgs, pad : 0..1,
   waveforms : {<<1, MaxTime>>, <<2, 1, MaxTime>>}]

\* STFT.__init__
STFT_init ==
  /\ pc = "call" /\ op = "STFT"
  /\ LET d == stft_defaults(args.fft_len, args.hop_len, args.frame_len, args.window)
     IN IF d.kind = "raise"
        THEN /\ ret' = d
             /\ pc' = "done"
             /\ UNCHANGED self
        ELSE /\ self' = [class |-> "STFT", fft_len |-> d.fft_len,
                         hop_len |-> d.hop_len, window |-> d.window,
                         pad |-> args.pad]
             /\ pc' = "constructed"
             /\ UNCHANGED ret
  /\ UNCHANGED <<op, args>>

\* STFT.forward
STFT_forward ==
  /\ pc = "constructed" /\ op = "STFT"
  /\ ret' = stft(args.waveforms, self.fft_len, self.hop_len, self.window, self.pad)
  /\ pc' = "done"
  /\ UNCHANGED <<op, args, self>>

\* ------------------------------------------------------------ complex numbers
\* A complex entry is the pair (real, imaginary) of the trailing axis of size 2.
Complex(re, im) == [re |-> re, im |-> im]
Zero == Complex(0, 0)

\* The entries of the model's spectrograms: the points of the two axes.
AxisVals == {Complex(1, 0), Complex(0, 1), Complex(-1, 0), Complex(0, -1), Zero}

\* torch.atan2(imag, real) in quarter turns, on the axes; atan2(0, 0) = 0.
angle(c) ==
  IF c.im = 0 THEN (IF c.re < 0 THEN 2 ELSE 0)
  ELSE IF c.im > 0 THEN 1 ELSE -1

\* torch.norm(c, dim=-1) on the axes: sqrt(re^2 + im^2) = |re| + |im|.
norm(c) == Abs(c.re) + Abs(c.im)

\* cos and sin of x quarter turns.
cos4(x) == CASE x % 4 = 0 -> 1 [] x % 4 = 2 -> -1 [] OTHER -> 0
sin4(x) == CASE x % 4 = 1 -> 1 [] x % 4 = 3 -> -1 [] OTHER -> 0

\* torch.round(n / d), d > 0: to the nearest integer, a tie to the even one.
torch_round_mutant_half_up(n, d) == (2 * n + d) \div (2 * d)

torch_round(n, d) ==
  LET fl == n \div d
      r2 == 2 * (n % d)
  IN IF r2 < d THEN fl
     ELSE IF r2 > d THEN fl + 1
     ELSE IF fl % 2 = 0 THEN fl ELSE fl + 1

CeilDiv(a, b) == -((-a) \div b)

RECURSIVE SumTo(_, _)
SumTo(s, k) == IF k = 0 THEN 0 ELSE s[k] + SumTo(s, k - 1)

\* torch.cumsum along the time axis
cumsum_mutant_no_sum(s) == s

cumsum(s) == [k \in 1..Len(s) |-> SumTo(s, k)]

\* ------------------------------------------------------------ phase_vocoder
\* A rate is the rational p/q > 0; a time step is a numerator over q.
Rate(p, q) == [p |-> p, q |-> q]

\* torch.arange(0, end, rate): ceil(end / rate) values 0, rate, 2*rate, ...
arange_mutant_docstring(end, rate) ==
  [k \in 1..((end * rate.q) \div rate.p + 1) |-> (k - 1) * rate.p]

arange(end, rate) ==
  [k \in 1..CeilDiv(end * rate.q, rate.p) |-> (k - 1) * rate.p]

\* The number of all-zero frames appended to the time axis (pad_shape).
TimePad == 2

\* torch.nn.functional.pad(spect, [0, 0] + [0, 2] + [0] * 6)
pad_time_mutant_none(spect) == spect

pad_time(spect) == spect \o [k \in 1..TimePad |-> Zero]

\* spect: the frames of one (batch, channel, bin) row, a sequence of complex
\* entries; phi_advance: that bin's entry of the table, in quarter turns.
\* Every local of the function is kept in the result.
phase_vocoder(spect, rate, phi_advance) ==
  LET q == rate.q
      time_steps == arange(Len(spect), rate)
      n == Len(time_steps)
      alphas == [k \in 1..n |-> time_steps[k] % q]
      phase_0 == angle(spect[1])
      padded == pad_time(spect)
      idx0 == [k \in 1..n |-> time_steps[k] \div q]
      idx1 == [k \in 1..n |-> (time_steps[k] + q) \div q]
  IN IF \E k \in 1..n : idx0[k] >= Len(padded) \/ idx1[k] >= Len(padded)
     THEN Raise("IndexError")
     ELSE
       LET spect_0 == [k \in 1..n |-> padded[idx0[k] + 1]]
           spect_1 == [k \in 1..n |-> padded[idx1[k] + 1]]
           dphi == [k \in 1..n |->
                      angle(spect_1[k]) - angle(spect_0[k]) - phi_advance]
           wrapped == [k \in 1..n |-> dphi[k] - 4 * torch_round(dphi[k], 4)]
           phase == [k \in 1..n |-> wrapped[k] + phi_advance]
           phase_cat == [k \in 1..n |-> IF k = 1 THEN phase_0 ELSE phase[k - 1]]
           phase_acc == cumsum(phase_cat)
           mag == [k \in 1..n |-> alphas[k] * norm(spect_1[k])
                                    + (q - alphas[k]) * norm(spect_0[k])]
       IN [kind |-> "Tensor",
           den |-> q,
           frames |-> [k \in 1..n |-> Complex(mag[k] * cos4(phase_acc[k]),
                                              mag[k] * sin4(phase_acc[k]))],
           time_steps |-> time_steps, idx0 |-> idx0, idx1 |-> idx1,
           padded |-> padded, dphi |-> dphi, wrapped |-> wrapped,
           phase_acc |-> phase_acc, mag |-> mag]

SeqsUpTo(S, n) == UNION {[1..k -> S] : k \in 1..n}

PhaseVocoderArgs ==
  [spect : SeqsUpTo(AxisVals, MaxFrames),
   rate : {Rate(p, q) : p \in 1..MaxRateNum, q \in 1..MaxRateDen},
   phi_advance : 0..3]

Call_phase_vocoder ==
  /\ pc = "call" /\ op = "phase_vocoder"
  /\ ret' = phase_vocoder(args.spect, args.rate, args.phi_advance)
  /\ pc' = "done"
  /\ UNCHANGED <<op, args, self>>

\* ------------------------------------------------------------ mel scale
RECURSIVE Pow(_, _)
Pow(b, k) == IF k = 0 THEN 1 ELSE b * Pow(b, k - 1)

\* The exponents at which the log segments are taken.
Exps == 0..3

\* A frequency of hz Hz is the integer hz * U (unit 1/U Hz); a mel value of m
\* mel is the integer m * 200 * U (unit 1/(200*U) mel).
Scale(num_freqs, num_mels) ==
  (IF num_freqs > 1 THEN num_freqs - 1 ELSE 1) * (IF num_mels > 0 THEN num_mels + 1 ELSE 1)

\* The k with num/den = (bnum/bden)^k: log of num/den to the base bnum/bden.
HasLog(num, den, bnum, bden) ==
  \E k \in Exps : num * Pow(bden, k) = den * Pow(bnum, k)
Log(num, den, bnum, bden) ==
  CHOOSE k \in Exps : num * Pow(bden, k) = den * Pow(bnum, k)

\* _hertz_to_mel(hz, htk)
\*   htk:    2595 * log10(1 + hz / 700)
\*   Slaney: hz / f_sp, f_sp = 200/3, and from min_log_hz = 1000 on
\*           min_log_mel + log(hz / 1000) / logstep, logstep = log(6.4) / 27
hertz_to_mel(hz, htk, U) ==
  IF htk THEN 2595 * Log(700 * U + hz, 700 * U, 10, 1) * 200 * U
  ELSE IF hz >= 1000 * U
       THEN (15 + 27 * Log(hz, 1000 * U, 32, 5)) * 200 * U
       ELSE 3 * hz

\* _mel_to_hertz(mel, htk)
\*   htk:    700 * (10^(mel / 2595) - 1)
\*   Slaney: f_sp * mel, and from min_log_mel = 15 on
\*           1000 * exp(logstep * (mel - 15)) = 1000 * 6.4^((mel - 15) / 27)
mel_to_hertz(mel, htk, U) ==
  IF htk THEN 700 * U * (Pow(10, mel \div (2595 * 200 * U)) - 1)
  ELSE IF mel >= 15 * 200 * U
       THEN LET k == (mel - 15 * 200 * U) \div (27 * 200 * U)
            IN (1000 * U * Pow(32, k)) \div Pow(5, k)
       ELSE mel \div 3

\* The frequencies and mel values at which the formulas above are exact.
HzExact(hz, htk, U) ==
  IF htk THEN hz >= 0 /\ HasLog(700 * U + hz, 700 * U, 10, 1)
  ELSE hz >= 0 /\ (hz >= 1000 * U => HasLog(hz, 1000 * U, 32, 5))

MelExact(mel, htk, U) ==
  IF htk THEN mel >= 0 /\ mel % (2595 * 200 * U) = 0 /\ mel \div (2595 * 200 * U) \in Exps
  ELSE IF mel >= 15 * 200 * U
       THEN /\ (mel - 15 * 200 * U) % (27 * 200 * U) = 0
            /\ (mel - 15 * 200 * U) \div (27 * 200 * U) \in Exps
       ELSE mel >= 0 /\ mel % 3 = 0

\* torch.linspace(start, end, steps): start + i * (end - start) / (steps - 1);
\* the unit U makes the step an integer.
linspace(start, end, steps) ==
  [i \in 1..steps |->
     IF steps = 1 THEN start ELSE start + (i - 1) * ((end - start) \div (steps - 1))]

\* ------------------------------------------------------------ floats
\* A quotient n/d of the filter: d > 0 after normalisation; d = 0 is the float
\* result of a division by zero: nan (n = 0), +inf (n = 1), -inf (n = -1).
Sign(x) == IF x > 0 THEN 1 ELSE IF x < 0 THEN -1 ELSE 0
RECURSIVE GCD(_, _)
GCD(a, b) == IF b = 0 THEN a ELSE GCD(b, a % b)
\* n/d in lowest terms
Frac(n, d) ==
  IF d = 0 THEN [n |-> Sign(n), d |-> 0]
  ELSE LET g == GCD(Abs(n), Abs(d))
       IN [n |-> (Sign(d) * n) \div g, d |-> Abs(d) \div g]
IsNaN(x) == x.n = 0 /\ x.d = 0
Less(x, y) == x.n * y.d < y.n * x.d

\* torch.min(x, y) elementwise: nan if either is nan
torch_min(x, y) == IF IsNaN(x) THEN x ELSE IF IsNaN(y) THEN y
                   ELSE IF Less(y, x) THEN y ELSE x

\* torch.clamp(x, min=0.)
clamp_mutant_none(x) == x

clamp_min0(x) == IF IsNaN(x) THEN x ELSE IF x.n < 0 THEN Frac(0, 1) ELSE x

\* ------------------------------------------------------------ create_mel_filter
\* min_freq, max_freq in Hz.  The result keeps the locals stft_freqs and f_pts
\* (in 1/U Hz) next to the matrix mel_filterbank[i][j], i a frequency sample,
\* j a mel band.
create_mel_filter(num_freqs, num_mels, min_freq, max_freq, htk) ==
  LET U == Scale(num_freqs, num_mels)
      m_min == hertz_to_mel(min_freq * U, htk, U)
      m_max == hertz_to_mel(max_freq * U, htk, U)
      stft_freqs == linspace(min_freq * U, max_freq * U, num_freqs)
      m_pts == linspace(m_min, m_max, num_mels + 2)
      f_pts == [j \in 1..(num_mels + 2) |-> mel_to_hertz(m_pts[j], htk, U)]
      f_diff == [j \in 1..(num_mels + 1) |-> f_pts[j + 1] - f_pts[j]]
      slopes == [i \in 1..num_freqs |->
                   [j \in 1..(num_mels + 2) |-> f_pts[j] - stft_freqs[i]]]
      down_slopes == [i \in 1..num_freqs |->
                        [j \in 1..num_mels |-> Frac(-slopes[i][j], f_diff[j])]]
      up_slopes == [i \in 1..num_freqs |->
                      [j \in 1..num_mels |-> Frac(slopes[i][j + 2], f_diff[j + 1])]]
  IN [kind |-> "Tensor",
      shape |-> <<num_freqs, num_mels>>,
      data |-> [i \in 1..num_freqs |->
                  [j \in 1..num_mels |->
                     clamp_min0(torch_min(down_slopes[i][j], up_slopes[i][j]))]],
      stft_freqs |-> stft_freqs, f_pts |-> f_pts, U |-> U]

\* The configurations whose frequencies and mel points are exact in the model.
MelExactConfig(a) ==
  LET U == Scale(a.num_freqs, a.num_mels)
  IN /\ HzExact(a.min_freq * U, a.htk, U)
     /\ HzExact(a.max_freq * U, a.htk, U)
     /\ \A m \in {linspace(hertz_to_mel(a.min_freq * U, a.htk, U),
                            hertz_to_mel(a.max_freq * U, a.htk, U),
                            a.num_mels + 2)[j] : j \in 1..(a.num_mels + 2)} :
          MelExact(m, a.htk, U)

FreqVals == {0, 250, 500, 750, 1000, 6300, 6400, 40960, 69300, 262144, 699300}

MelFilterArgs ==
  {a \in [num_freqs : 1..MaxFreqs, num_mels : 0..MaxMels,
           min_freq : FreqVals, max_freq : FreqVals, htk : BOOLEAN] :
     MelExactConfig(a)}

Call_create_mel_filter ==
  /\ pc = "call" /\ op = "create_mel_filter"
  /\ ret' = create_mel_filter(args.num_freqs, args.num_mels, args.min_freq,
                              args.max_freq, args.htk)
  /\ pc' = "done"
  /\ UNCHANGED <<op, args, self>>

\* ------------------------------------------------------------ tensors
\* A real tensor: its shape and its entries, a function of the index tuples
\* (0-based, as in torch).
RECURSIVE Indices(_)
Indices(shape) ==
  IF shape = <<>> THEN {<<>>}
  ELSE {<<i>> \o r : i \in 0..(Head(shape) - 1), r \in Indices(Tail(shape))}

\* The last two entries of a shape or of an index exchanged.
SwapLast2(s) ==
  [d \in 1..Len(s) |-> IF d = Len(s) - 1 THEN s[Len(s)]
                       ELSE IF d = Len(s) THEN s[Len(s) - 1] ELSE s[d]]

\* x.transpose(-2, -1)
transpose_shape(shape) == SwapLast2(shape)
transpose(x) ==
  [kind |-> "Tensor", shape |-> transpose_shape(x.shape),
   data |-> [idx \in Indices(transpose_shape(x.shape)) |-> x.data[SwapLast2(idx)]]]

\* torch.matmul(x, m), x of rank >= 2 and m a matrix: the last axis of x is
\* contracted against the first axis of m; the sizes must agree.
matmul_shape(xs, ms) == Front(xs) \o <<ms[2]>>
matmul(x, m) ==
  IF Last(x.shape) # m.shape[1] THEN Raise("RuntimeError")
  ELSE [kind |-> "Tensor", shape |-> matmul_shape(x.shape, m.shape),
        data |-> [idx \in Indices(matmul_shape(x.shape, m.shape)) |->
                    SumTo([k \in 1..m.shape[1] |->
                             x.data[Front(idx) \o <<k - 1>>]
                               * m.data[<<k - 1, Last(idx)>>]],
                          m.shape[1])]]

\* complex_norm: the norm over the trailing axis of size 2
complex_norm_shape(shape) == Front(shape)

\* ------------------------------------------------------------ apply_filterbank
\* torch.matmul(mag_specgrams.transpose(-2, -1), filterbank).transpose(-2, -1)
apply_filterbank_shape(mag_shape, fb_shape) ==
  transpose_shape(matmul_shape(transpose_shape(mag_shape), fb_shape))

apply_filterbank_mutant_no_transpose(mag_specgrams, filterbank) ==
  matmul(transpose(mag_specgrams), filterbank)

apply_filterbank(mag_specgrams, filterbank) ==
  LET r == matmul(transpose(mag_specgrams), filterbank)
  IN IF r.kind = "raise" THEN r ELSE transpose(r)

Matrix(rows, cols, data) == [kind |-> "Tensor", shape |-> <<rows, cols>>, data |-> data]

Identity(n) ==
  Matrix(n, n, [idx \in Indices(<<n, n>>) |-> IF idx[1] = idx[2] THEN 1 ELSE 0])

\* The filterbanks of the model for num_freqs = n: the identity, the band that
\* sums every bin, the bands that select one bin.
Filterbanks(n) ==
  {Identity(n)}
    \cup {Matrix(n, 1, [idx \in Indices(<<n, 1>>) |-> 1])}
    \cup {Matrix(n, 1, [idx \in Indices(<<n, 1>>) |-> IF idx[1] = b THEN 1 ELSE 0])
            : b \in 0..(n - 1)}

MagShapes ==
  {<<f, t>> : f \in 1..MaxBins, t \in 1..2}
    \cup {<<c, f, t>> : c \in 1..2, f \in 1..MaxBins, t \in 1..2}

MagSpecgrams ==
  UNION {{[kind |-> "Tensor", shape |-> sh, data |-> d] : d \in [Indices(sh) -> 0..1]}
           : sh \in MagShapes}

ApplyFilterbankArgs ==
  UNION {[mag_specgrams : {x}, filterbank : Filterbanks(x.shape[Len(x.shape) - 1])]
           : x \in MagSpecgrams}

Call_apply_filterbank ==
  /\ pc = "call" /\ op = "apply_filterbank"
  /\ ret' = apply_filterbank(args.mag_specgrams, args.filterbank)
  /\ pc' = "done"
  /\ UNCHANGED <<op, args, self>>

\* ------------------------------------------------------------ layers.MelFilterbank
\* Python truth of an optional number: None and 0 are false.
Truthy(x) == x # None /\ x # 0

\* MelFilterbank.__init__: the fields of the instance, or the error.
MelFilterbank_fields(a) ==
  IF a.sample_rate = None /\ a.max_freq = None THEN Raise("ValueError")
  ELSE IF ~Truthy(a.max_freq) /\ a.sample_rate = None
       THEN Raise("TypeError")                      \* None // 2
  ELSE [kind |-> "ok", class |-> "MelFilterbank",
        num_freqs |-> a.num_freqs, num_mels |-> a.num_mels,
        min_freq |-> a.min_freq,
        max_freq |-> IF Truthy(a.max_freq) THEN a.max_freq ELSE a.sample_rate \div 2,
        htk |-> a.htk]

\* MelFilterbank.get_filterbank
get_filterbank(m) ==
  create_mel_filter(m.num_freqs, m.num_mels, m.min_freq, m.max_freq, m.htk)

MelFilterbankArgs ==
  {a \in [num_freqs : 1..MaxFreqs, num_mels : 0..MaxMels,
           min_freq : {0, 500, 1000}, max_freq : {None, 0, 500, 1000, 40960},
           sample_rate : {None, 1001, 2000}, htk : {FALSE}] :
     LET m == MelFilterbank_fields(a)
     IN m.kind = "ok" => MelExactConfig(m)}

MelFilterbank_init ==
  /\ pc = "call" /\ op = "MelFilterbank"
  /\ LET m == MelFilterbank_fields(args)
     IN IF m.kind = "raise"
        THEN ret' = m /\ pc' = "done" /\ UNCHANGED self
        ELSE self' = m /\ pc' = "constructed" /\ UNCHANGED ret
  /\ UNCHANGED <<op, args>>

MelFilterbank_get_filterbank ==
  /\ pc = "constructed" /\ op = "MelFilterbank"
  /\ ret' = get_filterbank(self)
  /\ pc' = "done"
  /\ UNCHANGED <<op, args, self>>

\* ------------------------------------------------------------ factories
\* The default fft_len of STFT and the default num_freqs of Melspectrogram.
DefaultFftLen == 2048
DefaultNumFreqs == 1025

\* Spectrogram(fft_len, hop_len, frame_len, window, pad, pad_mode, power, mono):
\* builds nn.Sequential(STFT(...), ComplexNorm(power)); with mono it evaluates
\* the name SpectralDownmix, which the module does not define; otherwise the
\* body ends without a return statement.
Spectrogram(a) ==
  LET d == stft_defaults(a.fft_len, a.hop_len, a.frame_len, a.window)
  IN IF d.kind = "raise" THEN d
     ELSE IF a.mono THEN Raise("NameError")
     ELSE [kind |-> "None",
           modules |-> <<[class |-> "STFT", power |-> 0],
                         [class |-> "ComplexNorm", power |-> a.power]>>]

\* Melspectrogram(num_mels, sample_rate, min_freq, max_freq, num_freqs, htk,
\* mel_filterbank, **kwargs), kwargs holding fft_len (None: absent), window, mono.
Melspectrogram(a) ==
  LET num_freqs == IF Truthy(a.fft_len) THEN a.fft_len \div 2 + 1 ELSE DefaultNumFreqs
      m == MelFilterbank_fields([num_freqs |-> num_freqs, num_mels |-> a.num_mels,
                                 min_freq |-> a.min_freq, max_freq |-> a.max_freq,
                                 sample_rate |-> a.sample_rate, htk |-> a.htk])
  IN IF m.kind = "raise" THEN m
     ELSE LET mel_fb_matrix == get_filterbank(m)
              sp == Spectrogram([fft_len |-> IF a.fft_len = None THEN DefaultFftLen
                                             ELSE a.fft_len,
                                 hop_len |-> None, frame_len |-> None,
                                 window |-> a.window, power |-> 2, mono |-> a.mono])
          IN IF sp.kind = "raise" THEN sp
             ELSE IF sp.kind = "None"
                  THEN [kind |-> "raise", exc |-> "TypeError",    \* *None
                        mel_fb_shape |-> mel_fb_matrix.shape]
             ELSE sp

SpectrogramArgs ==
  [fft_len : {4, 8}, hop_len : {None, 2}, frame_len : {None, 2},
   window : {NoWindow, Tensor1D(4), NotATensor}, power : 1..2, mono : BOOLEAN]

MelspectrogramArgs ==
  {a \in [num_mels : 1..MaxMels, sample_rate : {2000}, min_freq : {0, 500},
           max_freq : {None, 1000}, htk : {FALSE}, fft_len : {None, 4, 8},
           window : {NoWindow}, mono : BOOLEAN] :
     MelExactConfig([num_freqs |-> IF a.fft_len = None THEN DefaultNumFreqs
                                   ELSE a.fft_len \div 2 + 1,
                     num_mels |-> a.num_mels, min_freq |-> a.min_freq,
                     max_freq |-> 1000, htk |-> a.htk])}

Call_Spectrogram ==
  /\ pc = "call" /\ op = "Spectrogram"
  /\ ret' = Spectrogram(args)
  /\ pc' = "done"
  /\ UNCHANGED <<op, args, self>>

Call_Melspectrogram ==
  /\ pc = "call" /\ op = "Melspectrogram"
  /\ ret' = Melspectrogram(args)
  /\ pc' = "done"
  /\ UNCHANGED <<op, args, self>>

\* ------------------------------------------------------------ phase_vocoder, all rows
\* torch.cumsum(phase, -1) of a (batch, channel, bins, time) tensor: along time
cumsum_last_mutant_bins(x) ==
  [b \in DOMAIN x |-> [c \in DOMAIN x[b] |-> [f \in DOMAIN x[b][c] |->
     [k \in DOMAIN x[b][c][f] |->
        SumTo([g \in DOMAIN x[b][c] |-> x[b][c][g][k]], f)]]]]

cumsum_last(x) ==
  [b \in DOMAIN x |-> [c \in DOMAIN x[b] |-> [f \in DOMAIN x[b][c] |->
     cumsum(x[b][c][f])]]]

\* spect: a (batch, channel, num_bins, time, 2) tensor as spect[b][c][f][t],
\* a complex entry; phi_advance: a (num_bins, 1) table as phi_advance[f][1],
\* in quarter turns, broadcast against (batch, channel, num_bins, time).
phase_vocoder_batch(spect, rate, phi_advance) ==
  LET q == rate.q
      B == DOMAIN spect
      C == DOMAIN spect[1]
      Fb == DOMAIN spect[1][1]
      time_steps == arange(Len(spect[1][1][1]), rate)
      n == Len(time_steps)
      alphas == [k \in 1..n |-> time_steps[k] % q]
      phase_0 == [b \in B |-> [c \in C |-> [f \in Fb |-> angle(spect[b][c][f][1])]]]
      padded == [b \in B |-> [c \in C |-> [f \in Fb |-> pad_time(spect[b][c][f])]]]
      size3 == Len(padded[1][1][1])
      idx0 == [k \in 1..n |-> time_steps[k] \div q]
      idx1 == [k \in 1..n |-> (time_steps[k] + q) \div q]
      phi(f) == IF Len(phi_advance) = 1 THEN phi_advance[1][1] ELSE phi_advance[f][1]
  IN IF \E k \in 1..n : idx0[k] >= size3 \/ idx1[k] >= size3
     THEN Raise("IndexError")
     ELSE IF Len(phi_advance) # 1 /\ Len(phi_advance) # Len(spect[1][1])
     THEN Raise("RuntimeError")
     ELSE
       LET spect_0 == [b \in B |-> [c \in C |-> [f \in Fb |->
                         [k \in 1..n |-> padded[b][c][f][idx0[k] + 1]]]]]
           spect_1 == [b \in B |-> [c \in C |-> [f \in Fb |->
                         [k \in 1..n |-> padded[b][c][f][idx1[k] + 1]]]]]
           dphi == [b \in B |-> [c \in C |-> [f \in Fb |-> [k \in 1..n |->
                      angle(spect_1[b][c][f][k]) - angle(spect_0[b][c][f][k]) - phi(f)]]]]
           wrapped == [b \in B |-> [c \in C |-> [f \in Fb |-> [k \in 1..n |->
                         dphi[b][c][f][k] - 4 * torch_round(dphi[b][c][f][k], 4)]]]]
           phase == [b \in B |-> [c \in C |-> [f \in Fb |-> [k \in 1..n |->
                       wrapped[b][c][f][k] + phi(f)]]]]
           phase_cat == [b \in B |-> [c \in C |-> [f \in Fb |-> [k \in 1..n |->
                           IF k = 1 THEN phase_0[b][c][f] ELSE phase[b][c][f][k - 1]]]]]
           phase_acc == cumsum_last(phase_cat)
           mag == [b \in B |-> [c \in C |-> [f \in Fb |-> [k \in 1..n |->
                     alphas[k] * norm(spect_1[b][c][f][k])
                       + (q - alphas[k]) * norm(spect_0[b][c][f][k])]]]]
       IN [kind |-> "Tensor",
           den |-> q,
           frames |-> [b \in B |-> [c \in C |-> [f \in Fb |-> [k \in 1..n |->
                         Complex(mag[b][c][f][k] * cos4(phase_acc[b][c][f][k]),
                                 mag[b][c][f][k] * sin4(phase_acc[b][c][f][k]))]]]],
           time_steps |-> time_steps, idx0 |-> idx0, idx1 |-> idx1,
           wrapped |-> wrapped, phase_acc |-> phase_acc]

\* ------------------------------------------------------------ layers.StretchSpecTime
\* torch.linspace(0, math.pi * hop_len, num_bins)[..., None]: a (num_bins, 1)
\* table, in quarter turns (pi is 2).
StretchSpecTime_phi_advance_mutant_no_endpoint(hop_len, num_bins) ==
  [k \in 1..num_bins |-> <<(2 * hop_len * (k - 1)) \div num_bins>>]

StretchSpecTime_phi_advance(hop_len, num_bins) ==
  LET line == linspace(0, 2 * hop_len, num_bins)
  IN [k \in 1..num_bins |-> <<line[k]>>]

\* StretchSpecTime.__init__: the fields of the instance
StretchSpecTime_fields(rate, hop_len, num_bins) ==
  [rate |-> rate, phi_advance |-> StretchSpecTime_phi_advance(hop_len, num_bins)]

\* StretchSpecTime.forward: what the call leaves in the instance and in the
\* caller's tensor, the rate it used, and what it returns.
StretchSpecTime_forward_mutant_keeps_rate(inst, complex_specgrams, rate) ==
  LET r == IF rate = NoneValue THEN inst.rate ELSE rate
  IN [self |-> [inst EXCEPT !.rate = r],
      complex_specgrams |-> complex_specgrams,
      rate |-> r,
      out |-> phase_vocoder_batch(complex_specgrams, r, inst.phi_advance)]

StretchSpecTime_forward(inst, complex_specgrams, rate) ==
  LET r == IF rate = NoneValue THEN inst.rate ELSE rate
  IN [self |-> inst,
      complex_specgrams |-> complex_specgrams,
      rate |-> r,
      out |-> phase_vocoder_batch(complex_specgrams, r, inst.phi_advance)]

\* ------------------------------------------------------------ layers.ApplyFilterbank
\* ApplyFilterbank.__init__: the fields of the instance
ApplyFilterbank_fields(filterbank) == [filterbank |-> filterbank]

\* ApplyFilterbank.forward: what the call leaves in the instance and in the
\* caller's tensor, and what it returns.
ApplyFilterbank_forward(inst, mag_specgrams) ==
  [self |-> inst,
   mag_specgrams |-> mag_specgrams,
   out |-> apply_filterbank(mag_specgrams, inst.filterbank)]

\* ------------------------------------------------------------ forward calls
\* One StretchSpecTime and one ApplyFilterbank are constructed, then called in
\* any order. self holds both instances; ret holds the number of calls made,
\* the caller's two tensors as the calls have left them, the latest call and
\* the one before it, the rate the latest call used and what it returned.
MaxCalls == 2

\* The rows of the input tensors: two frames of one bin
SpecRows ==
  {<<Complex(1, 0), Complex(0, 1)>>,
   <<Complex(0, -1), Complex(-1, 0)>>}

\* (batch, channel, num_bins, 2, 2) tensors with at most two rows over
\* batch and channel
Specgrams(num_bins) ==
  UNION {[1..bc[1] -> [1..bc[2] -> [1..num_bins -> SpecRows]]]
           : bc \in {<<1, 1>>, <<1, 2>>, <<2, 1>>}}

HopLens == {1, 2}

\* The tables whose entries are whole quarter turns
ExactTable(hop_len, num_bins) ==
  num_bins = 1 \/ (2 * hop_len) % (num_bins - 1) = 0

ForwardCallsArgs ==
  UNION {[rate : {Rate(1, 1), Rate(1, 2)},
          hop_len : {h \in HopLens : ExactTable(h, nb)},
          num_bins : {nb},
          filterbank : {Matrix(nb, 1, [idx \in Indices(<<nb, 1>>) |-> 1])},
          complex_specgrams : Specgrams(nb),
          mag_specgrams : {[kind |-> "Tensor", shape |-> <<nb, 2>>,
                            data |-> [idx \in Indices(<<nb, 2>>) |-> idx[1] + idx[2]]]}]
           : nb \in 1..MaxBins}

NoCall == [target |-> "none", rate |-> NoneValue]

\* The calls: forward(x), forward(x, rate=2) and ApplyFilterbank's forward(x)
Calls ==
  {[target |-> "StretchSpecTime", rate |-> NoneValue],
   [target |-> "StretchSpecTime", rate |-> Rate(2, 1)],
   [target |-> "ApplyFilterbank", rate |-> NoneValue]}

StretchSpecTime_init ==
  /\ pc = "call" /\ op = "forward_calls"
  /\ self' = [class |-> "instances",
              StretchSpecTime |-> StretchSpecTime_fields(args.rate, args.hop_len,
                                                         args.num_bins),
              ApplyFilterbank |-> NoSelf]
  /\ pc' = "StretchSpecTime"
  /\ UNCHANGED <<op, args, ret>>

ApplyFilterbank_init ==
  /\ pc = "StretchSpecTime" /\ op = "forward_calls"
  /\ self' = [self EXCEPT !.ApplyFilterbank = ApplyFilterbank_fields(args.filterbank)]
  /\ ret' = [kind |-> "calls", n |-> 0,
             complex_specgrams |-> args.complex_specgrams,
             mag_specgrams |-> args.mag_specgrams,
             call |-> NoCall, previous |-> NoCall,
             rate |-> NoneValue, out |-> NoneValue]
  /\ pc' = "constructed"
  /\ UNCHANGED <<op, args>>

StretchSpecTime_call ==
  /\ pc = "constructed" /\ op = "forward_calls"
  /\ ret.n < MaxCalls
  /\ \E call \in {c \in Calls : c.target = "StretchSpecTime"} :
       LET r == StretchSpecTime_forward(self.StretchSpecTime, ret.complex_specgrams,
                                        call.rate)
       IN /\ self' = [self EXCEPT !.StretchSpecTime = r.self]
          /\ ret' = [ret EXCEPT !.n = @ + 1,
                                !.complex_specgrams = r.complex_specgrams,
                                !.call = call, !.previous = ret.call,
                                !.rate = r.rate, !.out = r.out]
  /\ UNCHANGED <<op, pc, args>>

ApplyFilterbank_call ==
  /\ pc = "constructed" /\ op = "forward_calls"
  /\ ret.n < MaxCalls
  /\ \E call \in {c \in Calls : c.target = "ApplyFilterbank"} :
       LET r == ApplyFilterbank_forward(self.ApplyFilterbank, ret.mag_specgrams)
       IN /\ self' = [self EXCEPT !.ApplyFilterbank = r.self]
          /\ ret' = [ret EXCEPT !.n = @ + 1,
                                !.mag_specgrams = r.mag_specgrams,
                                !.call = call, !.previous = ret.call,
                                !.rate = NoneValue, !.out = r.out]
  /\ UNCHANGED <<op, pc, args>>

\* ------------------------------------------------------------ specification
Init ==
  /\ pc = "call"
  /\ self = NoSelf
  /\ ret = NoneValue
  /\ \/ op = "stft" /\ args \in StftArgs
     \/ op = "STFT" /\ args \in STFTArgs
     \/ op = "phase_vocoder" /\ args \in PhaseVocoderArgs
     \/ op = "create_mel_filter" /\ args \in MelFilterArgs
     \/ op = "apply_filterbank" /\ args \in ApplyFilterbankArgs
     \/ op = "MelFilterbank" /\ args \in MelFilterbankArgs
     \/ op = "Spectrogram" /\ args \in SpectrogramArgs
     \/ op = "Melspectrogram" /\ args \in MelspectrogramArgs

Next ==
  \/ Call_stft
  \/ STFT_init
  \/ STFT_forward
  \/ Call_phase_vocoder
  \/ Call_create_mel_filter
  \/ Call_apply_filterbank
  \/ MelFilterbank_init
  \/ MelFilterbank_get_filterbank
  \/ Call_Spectrogram
  \/ Call_Melspectrogram

Spec == Init /\ [][Next]_vars

\* The instances of layers.StretchSpecTime and layers.ApplyFilterbank under
\* sequences of forward calls.
InitForwardCalls ==
  /\ pc = "call"
  /\ self = NoSelf
  /\ ret = NoneValue
  /\ op = "forward_calls" /\ args \in ForwardCallsArgs

NextForwardCalls ==
  \/ StretchSpecTime_init
  \/ ApplyFilterbank_init
  \/ StretchSpecTime_call
  \/ ApplyFilterbank_call

SpecForwardCalls == InitForwardCalls /\ [][NextForwardCalls]_vars

\* ------------------------------------------------------------ claims
Done(o) == pc = "done" /\ op = o

\* The frame count of the claim: floor((T + 2*pad - fft_len) / hop_len) + 1.
NumFrames(T, pad, fft_len, hop_len) == (T + 2 * pad - fft_len) \div hop_len + 1

\* The shape the claim gives for a waveform of shape w.
FramerShape(w, pad, fft_len, hop_len) ==
  Front(w) \o <<fft_len \div 2 + 1, NumFrames(Last(w), pad, fft_len, hop_len), 2>>

\* C1: a call of functional.stft, or of STFT.forward, that does not raise
\* returns a tensor of shape (B, C, fft_len/2+1, num_frames, 2) for a waveform
\* (B, C, T) and (C, fft_len/2+1, num_frames, 2) for a waveform (C, T).
C1_StftReturnsSpectrogram ==
  /\ (Done("stft") /\ ret.kind # "raise") =>
        /\ ret.kind = "Tensor"
        /\ ret.shape = FramerShape(args.waveforms, args.pad, args.fft_len, args.hop_len)
  /\ (Done("STFT") /\ ret.kind # "raise") =>
        /\ ret.kind = "Tensor"
        /\ ret.shape = FramerShape(args.waveforms, self.pad, self.fft_len, self.hop_len)

\* The frames of the input of a phase_vocoder call.
InFrames == Len(args.spect)

C4_ReadsInBounds ==
  Done("phase_vocoder") =>
    /\ ret.kind = "Tensor"
    /\ Len(ret.padded) = InFrames + 2
    /\ \A k \in 1..Len(ret.time_steps) :
         LET t == ret.time_steps[k]
             i0 == ret.idx0[k]
             i1 == ret.idx1[k]
         IN /\ i0 * args.rate.q <= t /\ t < (i0 + 1) * args.rate.q
            /\ i1 = i0 + 1
            /\ 0 <= i0 /\ i1 <= InFrames + 1 /\ i1 < Len(ret.padded)
            /\ \A i \in {i0, i1} : i >= InFrames => ret.padded[i + 1] = Zero

\* The last position of a stretch by 1/2 of 3 frames, t = 5/2, reads the last
\* frame (index 2) and the first padding frame (index 3).
C4_Witness ==
  /\ Done("phase_vocoder")
  /\ args.rate = Rate(1, 2) /\ InFrames = 3
  /\ ret.idx0[Len(ret.idx0)] = InFrames - 1 /\ ret.idx1[Len(ret.idx1)] = InFrames
  /\ args.spect[InFrames] # Zero

\* The preconditions of create_mel_filter.
ValidMelConfig(a) ==
  a.max_freq > a.min_freq /\ a.min_freq >= 0 /\ a.num_mels >= 1 /\ a.num_freqs >= 2

One == Frac(1, 1)
IsZero(x) == x.n = 0 /\ x.d > 0

\* The entry of sample point i and band j is zero when the sample point is not
\* strictly between the band's boundary frequencies, and is never negative.
ZeroOutsideNonNegative(i, j) ==
  LET e == ret.data[i][j]
      f == ret.stft_freqs[i]
  IN /\ e.d > 0 /\ e.n >= 0
     /\ (f <= ret.f_pts[j] \/ f >= ret.f_pts[j + 2]) => IsZero(e)

\* C5, as stated: for a valid configuration every column of the mel filterbank
\* has the maximum 1, at a sample point, is zero outside its boundary
\* frequencies, and no entry is negative.
C5_ColumnMaxIsOne ==
  (Done("create_mel_filter") /\ ValidMelConfig(args)) =>
    \A j \in 1..args.num_mels :
      /\ \E i \in 1..args.num_freqs : ret.data[i][j] = One
      /\ \A i \in 1..args.num_freqs :
           ~Less(One, ret.data[i][j]) /\ ZeroOutsideNonNegative(i, j)

\* C5, amended: for a valid configuration every entry lies in [0, 1] and is 1
\* exactly when its sample point is the band's center frequency; it is zero
\* outside the band's boundary frequencies and positive strictly between them.
C5_TriangleSamples ==
  (Done("create_mel_filter") /\ ValidMelConfig(args)) =>
    /\ ret.kind = "Tensor" /\ ret.shape = <<args.num_freqs, args.num_mels>>
    /\ \A j \in 1..args.num_mels : \A i \in 1..args.num_freqs :
         /\ ~Less(One, ret.data[i][j])
         /\ ZeroOutsideNonNegative(i, j)
         /\ ret.data[i][j] = One <=> ret.stft_freqs[i] = ret.f_pts[j + 1]
         /\ IsZero(ret.data[i][j]) <=>
              (ret.stft_freqs[i] <= ret.f_pts[j] \/ ret.stft_freqs[i] >= ret.f_pts[j + 2])

\* Slaney scale, one band from 1000 Hz over 6400 Hz to 40960 Hz, sampled at
\* 1000, 20980 and 40960 Hz: the column is (0, 37/64, 0).
C5_Witness ==
  /\ Done("create_mel_filter")
  /\ args = [num_freqs |-> 3, num_mels |-> 1, min_freq |-> 1000,
             max_freq |-> 40960, htk |-> FALSE]
  /\ ret.f_pts = <<1000 * ret.U, 6400 * ret.U, 40960 * ret.U>>
  /\ ret.data = <<<<Frac(0, 1)>>, <<Frac(37, 64)>>, <<Frac(0, 1)>>>>

IsIdentity(m) == m.shape[1] = m.shape[2] /\ m = Identity(m.shape[1])

\* C7: apply_filterbank with the identity matrix of size num_freqs returns the
\* input: the same shape and the same entries, whatever the leading dimensions.
C7_IdentityFilterbank ==
  (Done("apply_filterbank") /\ IsIdentity(args.filterbank)) =>
    /\ ret.kind = "Tensor"
    /\ ret.shape = args.mag_specgrams.shape
    /\ ret.data = args.mag_specgrams.data

\* A (2, 2, 2) spectrogram whose entries differ along the frequency and the
\* time axis.
C7_Witness ==
  /\ Done("apply_filterbank") /\ IsIdentity(args.filterbank)
  /\ args.mag_specgrams.shape = <<2, 2, 2>>
  /\ args.mag_specgrams.data[<<0, 0, 1>>] = 1
  /\ args.mag_specgrams.data[<<0, 1, 0>>] = 0
  /\ args.mag_specgrams.data[<<1, 1, 0>>] = 1
  /\ ret.data = args.mag_specgrams.data

\* The configuration the caller of MelFilterbank asks for: max_freq, or
\* sample_rate // 2 when max_freq is None.
RequestedMelConfig(a) ==
  [num_freqs |-> a.num_freqs, num_mels |-> a.num_mels, min_freq |-> a.min_freq,
   max_freq |-> IF a.max_freq = None THEN a.sample_rate \div 2 ELSE a.max_freq]

\* C8: an invalid filterbank configuration (max_freq <= min_freq, max_freq = 0
\* included, num_mels < 1 or num_freqs < 2) raises an error, in create_mel_filter
\* and in MelFilterbank followed by get_filterbank; no matrix is returned and no
\* other max_freq is substituted.
C8_InvalidConfigRaises ==
  /\ (Done("create_mel_filter") /\ ~ValidMelConfig(args)) => ret.kind = "raise"
  /\ (op = "MelFilterbank" /\ pc # "call"
        /\ (args.max_freq # None \/ args.sample_rate # None)
        /\ ~ValidMelConfig(RequestedMelConfig(args))) =>
       /\ pc = "done" /\ ret.kind = "raise"
       /\ self = NoSelf

\* A window the claim calls invalid: supplied, and not a tensor, or not of
\* rank 1, or empty, or longer than fft_len.
BadWindow(w, fft_len) ==
  /\ w.kind # "None"
  /\ \/ w.kind # "Tensor"
     \/ Len(w.shape) # 1
     \/ w.shape[1] <= 0
     \/ w.shape[1] > fft_len

RejectedAtInit == pc = "done" /\ self = NoSelf /\ ret.kind = "raise"

Module(class, power) == [class |-> class, power |-> power]

\* The pipeline the claim gives for Spectrogram(power, mono).
SpectrogramPipeline(power, mono) ==
  <<Module("STFT", 0), Module("ComplexNorm", power)>>
    \o (IF mono THEN <<Module("DownmixSpectrum", 0)>> ELSE <<>>)

\* C10: Spectrogram returns the pipeline STFT, ComplexNorm(power) and, with
\* mono, a downmix, without raising; Melspectrogram returns that pipeline with
\* power 2 followed by ApplyFilterbank of a (fft_len/2 + 1, num_mels) matrix.
C10_FactoriesReturnPipelines ==
  /\ (Done("Spectrogram") /\ args.window.kind # "object") =>
       /\ ret.kind = "Sequential"
       /\ ret.modules = SpectrogramPipeline(args.power, args.mono)
  /\ Done("Melspectrogram") =>
       /\ ret.kind = "Sequential"
       /\ ret.modules = SpectrogramPipeline(2, args.mono)
                           \o <<Module("ApplyFilterbank", 0)>>

\* ---- C11
\* The phase difference before wrapping, of every output frame of the row.
PhaseDiffs == ret.dphi

\* C11 as stated: the wrapped phase difference of every output frame lies in
\* (-pi, pi], so it is never -pi (-2 quarter turns).
C11_WrappedNeverMinusPi ==
  (Done("phase_vocoder") /\ ret.kind = "Tensor") =>
    \A k \in DOMAIN ret.wrapped : -2 < ret.wrapped[k] /\ ret.wrapped[k] <= 2

\* C11 amended: the wrapped phase difference lies in the closed interval
\* [-pi, pi] and differs from dphi by a whole number of turns; a dphi strictly
\* inside (-pi, pi) is unchanged, and a dphi that is an odd multiple of pi is
\* wrapped to +pi when dphi = pi + 4*pi*m and to -pi when dphi = -pi + 4*pi*m
\* (the tie of round() goes to the even integer).
C11_WrappedInClosedInterval ==
  (Done("phase_vocoder") /\ ret.kind = "Tensor") =>
    \A k \in DOMAIN ret.wrapped :
      LET d == PhaseDiffs[k]
          w == ret.wrapped[k]
      IN /\ d = angle(ret.padded[ret.idx1[k] + 1])
                - angle(ret.padded[ret.idx0[k] + 1]) - args.phi_advance
         /\ -2 <= w /\ w <= 2
         /\ (w - d) % 4 = 0
         /\ (-2 < d /\ d < 2) => w = d
         /\ d % 8 = 2 => w = 2
         /\ d % 8 = 6 => w = -2

\* An output frame whose dphi is -pi and whose wrapped value is -pi.
C11_Witness ==
  /\ Done("phase_vocoder") /\ ret.kind = "Tensor"
  /\ \E k \in DOMAIN ret.wrapped : PhaseDiffs[k] = -2 /\ ret.wrapped[k] = -2

\* ---- C12
\* A StretchSpecTime call has returned a tensor.
Stretched ==
  /\ op = "forward_calls" /\ pc = "constructed"
  /\ ret.call.target = "StretchSpecTime" /\ ret.out.kind = "Tensor"

\* The (batch, channel, bin) rows of the input
Rows ==
  {<<b, c, f>> : b \in DOMAIN args.complex_specgrams,
                 c \in DOMAIN args.complex_specgrams[1],
                 f \in DOMAIN args.complex_specgrams[1][1]}

\* C12: in every (batch, channel, bin) row, the accumulated phase of output
\* frame 0 is the phase of input frame 0, the accumulated phase of every later
\* frame is that of the frame before plus the bin's phase_advance plus the
\* wrapped dphi of the frame before, and the whole row of the output is what
\* phase_vocoder returns for that row alone with the bin's own table entry.
C12_PhaseAccumulationPerBin ==
  Stretched =>
    \A r \in Rows :
      LET x == args.complex_specgrams[r[1]][r[2]][r[3]]
          phi == self.StretchSpecTime.phi_advance[r[3]][1]
          acc == ret.out.phase_acc[r[1]][r[2]][r[3]]
          w == ret.out.wrapped[r[1]][r[2]][r[3]]
          alone == phase_vocoder(x, ret.rate, phi)
      IN /\ acc[1] = angle(x[1])
         /\ \A k \in 2..Len(acc) : acc[k] = acc[k - 1] + phi + w[k - 1]
         /\ w = alone.wrapped
         /\ acc = alone.phase_acc
         /\ ret.out.frames[r[1]][r[2]][r[3]] = alone.frames

\* A call on two bins with different frames and different table entries and
\* on two channels with different frames, that returns several frames whose
\* accumulated phases differ from bin to bin.
C12_Witness ==
  /\ Stretched
  /\ Len(ret.out.time_steps) >= 3
  /\ Len(args.complex_specgrams[1]) = 2
  /\ args.complex_specgrams[1][1] # args.complex_specgrams[1][2]
  /\ Len(args.complex_specgrams[1][1]) >= 2
  /\ args.complex_specgrams[1][1][1] # args.complex_specgrams[1][1][2]
  /\ self.StretchSpecTime.phi_advance[1] # self.StretchSpecTime.phi_advance[2]
  /\ ret.out.phase_acc[1][1][1] # ret.out.phase_acc[1][1][2]
  /\ ret.out.phase_acc[1][1][1][3] # ret.out.phase_acc[1][1][1][2]

\* ---- C13
\* StretchSpecTime has been constructed.
TableBuilt == op = "forward_calls" /\ pc # "call"

\* C13 as stated: the table has shape (num_bins, 1) and its entry for bin k is
\* pi * hop_len * k / num_bins.
C13_EntryOverNumBins ==
  TableBuilt =>
    LET table == self.StretchSpecTime.phi_advance
    IN /\ Len(table) = args.num_bins
       /\ \A k \in 0..(args.num_bins - 1) :
            /\ Len(table[k + 1]) = 1
            /\ table[k + 1][1] * args.num_bins = 2 * args.hop_len * k

\* C13 amended: the table has shape (num_bins, 1); for num_bins >= 2 its entry
\* for bin k is pi * hop_len * k / (num_bins - 1), so the first entry is 0 and
\* the last is pi * hop_len; for num_bins = 1 its one entry is 0.
C13_EntryOverNumBinsMinusOne ==
  TableBuilt =>
    LET table == self.StretchSpecTime.phi_advance
    IN /\ Len(table) = args.num_bins
       /\ \A k \in 0..(args.num_bins - 1) :
            /\ Len(table[k + 1]) = 1
            /\ table[k + 1][1] * (args.num_bins - 1) = 2 * args.hop_len * k
       /\ table[1][1] = 0
       /\ args.num_bins >= 2 => table[args.num_bins][1] = 2 * args.hop_len

\* A table of two bins for hop_len = 2: its last entry is 2 * pi.
C13_Witness ==
  /\ TableBuilt
  /\ args.num_bins = 2 /\ args.hop_len = 2
  /\ self.StretchSpecTime.phi_advance[2][1] = 4

\* ---- C14
\* C14: after every sequence of forward calls on the two instances, the
\* StretchSpecTime instance holds the constructor's rate and the table built
\* at construction, the ApplyFilterbank instance holds the constructor's
\* filterbank, the caller's two tensors are as they were passed, a call
\* without a rate used the constructor's rate and returned what that rate
\* gives, and a call with a rate used that rate.
C14_ForwardLeavesStateAlone ==
  (op = "forward_calls" /\ pc = "constructed") =>
    /\ self.StretchSpecTime.rate = args.rate
    /\ self.StretchSpecTime.phi_advance
         = StretchSpecTime_phi_advance(args.hop_len, args.num_bins)
    /\ self.ApplyFilterbank.filterbank = args.filterbank
    /\ ret.complex_specgrams = args.complex_specgrams
    /\ ret.mag_specgrams = args.mag_specgrams
    /\ (ret.call.target = "StretchSpecTime" /\ ret.call.rate = NoneValue) =>
         /\ ret.rate = args.rate
         /\ ret.out = phase_vocoder_batch(args.complex_specgrams, args.rate,
                                          self.StretchSpecTime.phi_advance)
    /\ (ret.call.target = "StretchSpecTime" /\ ret.call.rate # NoneValue) =>
         ret.rate = ret.call.rate
    /\ ret.call.target = "ApplyFilterbank" =>
         ret.out = apply_filterbank(args.mag_specgrams, args.filterbank)

\* A call without a rate that follows a call with the rate 2 on an instance
\* constructed with another rate.
C14_Witness ==
  /\ op = "forward_calls" /\ pc = "constructed"
  /\ ret.n = 2
  /\ ret.previous.target = "StretchSpecTime" /\ ret.previous.rate = Rate(2, 1)
  /\ ret.call.target = "StretchSpecTime" /\ ret.call.rate = NoneValue
  /\ args.rate # Rate(2, 1)
  /\ ret.rate = args.rate

=============================================================================
